---- MODULE Spec2Model ----
(***************************************************************************)
(* The incremental translation task orchestrator of pdf_paper_translator:  *)
(* the snapshot file (llm cache), the set of stop flags, the control       *)
(* surface of server.py and the execution engine run_smart_analysis of     *)
(* workflow_utils.py, for one document.                                    *)
(*                                                                         *)
(* Texts are numbers: 0 is the empty string, n > 0 a visible text.  A      *)
(* chunk text is identified up to equality, which is all the fingerprint   *)
(* sees.  Task ids are 0-based as in the source; sequence positions are    *)
(* 1-based, so the fresh task at position p has id p - 1.                  *)
(***************************************************************************)
EXTENDS Integers, Sequences, FiniteSets, TLC

\* ---------------------------------------------------------------- bounds
MaxChunks == 2      \* chunks of the context file under SerialSpec
WideChunks == 3     \* chunks of the context file under WideSpec
ServerChunks == 2   \* chunks of the context file under Spec
MaxRequests == 4    \* client requests in one behaviour of Spec
MaxFlagThreads == 3 \* request threads that work on STOP_FLAGS at once
MaxBlocks == 3      \* blocks of a text stream given to the segmentation
MaxSentences == 3   \* sentences of a text given to split_long_buffer_safely
MaxSentenceLen == 3 \* characters of a sentence
MaxLen == 4         \* the cap max_len goes up to this
MaxRuns == 2        \* background threads the server can run at once

\* Visible texts are opaque to the code, which copies them and tests them
\* for emptiness only: one visible translation and one visible hint stand
\* for all of them (0 is the empty string).
Translations == {1}
Hints == {1}

\* range(3) of the attempt loop
MaxAttempts == 3

\* MAX_CHUNK_CHARS (1000 characters), in units of 500 characters
MAX_CHUNK_CHARS == 2

Runs == 1..MaxRuns
FlagThreads == 1..MaxFlagThreads
NotSegmented == [done |-> FALSE, chunks |-> <<>>, layout |-> {}]
NoText == [sentences |-> <<>>, max_len |-> 0]
NotSplit == [done |-> FALSE, pieces |-> <<>>]
Doc == "paper"      \* raw_name of the one document modelled

VARIABLES
    content,      \* the context file: the chunk texts, in document order
    cache,        \* the snapshot file <raw_name>_llm_cache.json
    STOP_FLAGS,   \* workflow_utils.STOP_FLAGS
    pc,           \* per thread: idle, start, loop, call, final
    ctx,          \* per thread: the content the run read
    cur,          \* per thread: current_tasks, as json.dump would write it
    alias,        \* per thread: position -> the position whose dict object it shares
    i,            \* per thread: position of the for loop over current_tasks
    attempt,      \* per thread: attempts already made for the task in flight
    started,      \* history: per thread, the positions whose task was started, in order
    stopped,      \* history: per thread, whether the run left the loop by the stop branch
    cancelReq,    \* history: per thread, whether stop was requested while it was in the loop
    atStop,       \* history: the snapshot that was durable when the process last stopped
    requests,     \* history: the client requests served so far (counted under Spec)
    unread,       \* event stream: the file's mtime is newer than last_mod_time
    sub,          \* event stream: whether one is open, and what it sent last
    handler,      \* per request thread of FlagsSpec: the flag operation it is in
    raised,       \* history: the request threads in which an exception was raised
    segText,      \* the text given to split_text_into_chunks_with_layout
    segmented,    \* what it returned: the chunks and the association map
    call,         \* per thread: the provider request in flight (model and prompt)
    splitIn,      \* the text and the cap given to split_long_buffer_safely
    splitOut      \* the pieces it returned

vars == <<content, cache, STOP_FLAGS, pc, ctx, cur, alias, i, attempt,
          started, stopped, cancelReq, atStop, requests, unread, sub,
          handler, raised, segText, segmented, call, splitIn, splitOut>>

\* What the server's handlers and the engine never touch: the state of the
\* flag operations taken alone and of the segmentation taken alone.
flagVars == <<handler, raised>>
segVars == <<segText, segmented, splitIn, splitOut>>

\* ------------------------------------------------------------ pure parts

\* hashlib.md5 of the text: equal texts give equal digests, and no two texts
\* of the bounded domain collide.
compute_hash(text) == 1000 + text

\* The inputs: chunk lists up to renaming of texts (a text is named by the
\* order of its first occurrence), of 1..m chunks.
Canonical(s) ==
    \A p \in 1..Len(s) : s[p] = 1 \/ \E q \in 1..(p-1) : s[q] >= s[p] - 1

InputsUpTo(m) ==
    {s \in UNION {[1..n -> 1..n] : n \in 1..m} : Canonical(s)}

\* The type of a chunk follows from the form of its text: text HeaderText
\* stands for a header marker, the other texts for body paragraphs.
HeaderText == 2
TypeOf(text) == IF text = HeaderText THEN "header" ELSE "body"

\* build_initial_tasks, step 4: one pending task per chunk, id = position.
FreshTask(p, text) ==
    [id |-> p - 1, type |-> TypeOf(text), chunk_hash |-> compute_hash(text),
     status |-> "pending", src |-> text, trans |-> 0, user_hint |-> 0,
     old_trans |-> 0]

build_initial_tasks(c) == [p \in 1..Len(c) |-> FreshTask(p, c[p])]

\* split_content_smart / split_text_into_chunks_with_layout as seen by the
\* engine: the unconsumed reference text and the association map are
\* functions of the context file alone.
RawRefsOf(c) == <<"refs", c>>
LayoutOf(c) == <<"layout", c>>

\* _save_cache: the whole file is replaced (updated_at left out).
SnapshotOf(tasks, c) ==
    [state |-> "ok", tasks |-> tasks,
     raw_references |-> RawRefsOf(c), layout_map |-> LayoutOf(c)]

\* No snapshot file, and a file whose write was cut short (json.load raises).
NoFile ==
    [state |-> "missing", tasks |-> <<>>,
     raw_references |-> <<>>, layout_map |-> <<>>]
TornFile ==
    [state |-> "corrupt", tasks |-> <<>>,
     raw_references |-> <<>>, layout_map |-> <<>>]

Max(S) == CHOOSE x \in S : \A y \in S : y <= x
Min(S) == CHOOSE x \in S : \A y \in S : x <= y

\* A task record of a snapshot file that has no chunk_hash key (the file was
\* written by something else than this program).
NoHash == 0

\* The loop that fills old_tasks_map runs inside `try: ... except: pass`:
\* t["chunk_hash"] raises at the first record without the key, the loop is
\* left, and what it stored before stays in the map.
Indexed(tasks) ==
    {q \in 1..Len(tasks) : \A q2 \in 1..q : tasks[q2].chunk_hash # NoHash}

\* old_tasks_map: filled in file order, so the last task of a hash wins;
\* empty when the file is missing or json.load raises.
PosWithHash(tasks, h) == {q \in 1..Len(tasks) : tasks[q].chunk_hash = h}
HasCached(file, h) ==
    file.state = "ok" /\ PosWithHash(file.tasks, h) \cap Indexed(file.tasks) # {}
CachedTask(file, h) ==
    file.tasks[Max(PosWithHash(file.tasks, h) \cap Indexed(file.tasks))]

\* "failed" and "processing" of the last run become "pending".
ResetStatus_keep(s) == s
ResetStatus(s) == IF s \in {"failed", "processing"} THEN "pending" ELSE s

\* The merge loop of run_smart_analysis.  A cached task is adopted as the
\* dict object itself: every fresh chunk of that hash gets the SAME object,
\* whose id is assigned once per such chunk, so the id of the last one stays.
MergeTasks(c, file) ==
    LET raw == build_initial_tasks(c)
    IN [p \in 1..Len(c) |->
          LET h == raw[p].chunk_hash
          IN IF HasCached(file, h)
             THEN LET t == CachedTask(file, h)
                  IN [t EXCEPT !.id = raw[Max(PosWithHash(raw, h))].id,
                               !.status = ResetStatus(t.status)]
             ELSE raw[p]]

MergeAlias(c, file) ==
    LET raw == build_initial_tasks(c)
    IN [p \in 1..Len(c) |->
          IF HasCached(file, raw[p].chunk_hash)
          THEN Min(PosWithHash(raw, raw[p].chunk_hash))
          ELSE p]

\* An assignment task[...] = ... through position p reaches every position
\* that holds the same dict object.
Touch(tasks, al, p, new) ==
    [q \in 1..Len(tasks) |-> IF al[q] = al[p] THEN new ELSE tasks[q]]

\* The provider's answers: an exception, or a text: empty, a bare code
\* fence, whitespace only, or visible text n.
Responses ==
    {[kind |-> k, text |-> 0] : k \in {"raise", "empty", "fence", "blank"}}
    \cup {[kind |-> "text", text |-> n] : n \in Translations}

\* The two re.sub calls: the fence wrapping is removed; what is left of a
\* bare fence is the empty string.
StripFence(resp) == IF resp.kind = "fence" THEN [kind |-> "empty", text |-> 0] ELSE resp
\* `if res_text:`
Truthy(res) == res.kind # "empty"
\* res_text.strip()
Strip(res) == IF res.kind = "text" THEN res.text ELSE 0

\* One attempt of the loop makes the task success exactly when no exception
\* was raised and the stripped text is truthy.
AttemptSucceeds_never(resp) == FALSE
AttemptSucceeds(resp) == resp.kind # "raise" /\ Truthy(StripFence(resp))

\* A user hint is the empty string (0), a visible text, or BlankHint: a
\* text of whitespace only.  user_hint.strip() / old_trans.strip():
BlankHint == 2
StripText(x) == IF x = BlankHint THEN 0 ELSE x

\* `is_correction_mode = bool(user_hint and old_trans)`, on the stripped texts
is_correction_mode_hint(t) == StripText(t.user_hint) # 0
is_correction_mode(t) ==
    StripText(t.user_hint) # 0 /\ StripText(t.old_trans) # 0

\* current_model and sys_prompt of the request: the correction prompt with
\* MODEL_STRONG, or PROMPT_MAP.get(t_type, PROMPT_MAP["body"]) with
\* MODEL_NORMAL.
Strategy(t) ==
    IF is_correction_mode(t)
    THEN [model |-> "MODEL_STRONG", prompt |-> "SYSTEM_PROMPT_CORRECTION"]
    ELSE [model |-> "MODEL_NORMAL",
          prompt |-> IF t.type \in {"meta", "header", "body", "asset"}
                     THEN t.type ELSE "body"]

NoCall == [model |-> "none", prompt |-> "none"]

\* ------------------------------------------------------------- the state

Active(r) == pc[r] \in {"start", "loop", "call", "final"}
InLoop(r) == pc[r] \in {"loop", "call"}

\* No event stream is open; an open one has sent `last` success tasks in its
\* latest snapshot event (-1: no event yet).
NoSub == [state |-> "none", last |-> -1]

\* _save_cache and the json.dump of the handlers: the file's mtime moves
\* past the last_mod_time of an open event stream.
FileWritten == unread' = (sub.state = "open") /\ UNCHANGED sub

\* No flag operation is under way, and nothing was segmented.
FlagsAtRest == handler = [t \in FlagThreads |-> <<"idle">>] /\ raised = {}
SegAtRest ==
    /\ segText = <<>> /\ segmented = NotSegmented
    /\ splitIn = NoText /\ splitOut = NotSplit

\* The server has just started on a document whose context file is there:
\* no flag, no thread, no stream.
AtStart(inputs) ==
    /\ content \in inputs
    /\ STOP_FLAGS = {}
    /\ pc = [r \in Runs |-> "idle"]
    /\ ctx = [r \in Runs |-> <<>>]
    /\ cur = [r \in Runs |-> <<>>]
    /\ alias = [r \in Runs |-> <<>>]
    /\ i = [r \in Runs |-> 0]
    /\ attempt = [r \in Runs |-> 0]
    /\ call = [r \in Runs |-> NoCall]
    /\ started = [r \in Runs |-> <<>>]
    /\ stopped = [r \in Runs |-> FALSE]
    /\ cancelReq = [r \in Runs |-> FALSE]
    /\ atStop = NoFile
    /\ requests = 0
    /\ unread = FALSE
    /\ sub = NoSub
    /\ FlagsAtRest

\* The extraction step has run before anything else: the context file is
\* there, and the snapshot is the one extraction wrote, or is missing (the
\* llm_output directory was emptied).
InitOver(inputs) ==
    /\ AtStart(inputs)
    /\ SegAtRest
    /\ cache \in {NoFile, SnapshotOf(build_initial_tasks(content), content)}

\* ------------------------------------------------------ control surface

\* request_stop / clear_stop
request_stop(flags, name) == flags \cup {name}
clear_stop(flags, name) == flags \ {name}

\* BackgroundTasks.add_task: the run is handed to a free worker thread (the
\* lowest free one: threads are interchangeable).
Spawn(r) ==
    /\ ~Active(r)
    /\ \A q \in Runs : q < r => Active(q)
    /\ pc' = [pc EXCEPT ![r] = "start"]
    /\ UNCHANGED <<ctx, cur, alias, i, attempt, started, stopped, cancelReq,
                   unread, sub, flagVars, segVars, call>>

\* POST /api/workflow/translate/{filename}
trigger_translate(r) ==
    /\ STOP_FLAGS' = clear_stop(STOP_FLAGS, Doc)
    /\ Spawn(r)
    /\ UNCHANGED <<content, cache, atStop>>

\* POST /api/feedback/rerun (the report it regenerates afterwards is not
\* part of the state)
rerun_feedback(r) ==
    /\ STOP_FLAGS' = clear_stop(STOP_FLAGS, Doc)
    /\ Spawn(r)
    /\ UNCHANGED <<content, cache, atStop>>

\* POST /trigger_rerun of start_interactive_server: run_smart_analysis is
\* called as it is; STOP_FLAGS is not touched.
handle_trigger_rerun(r) ==
    /\ Spawn(r)
    /\ UNCHANGED <<content, cache, STOP_FLAGS, atStop>>

\* POST /api/workflow/stop/{filename}
stop_translate ==
    /\ STOP_FLAGS' = request_stop(STOP_FLAGS, Doc)
    /\ cancelReq' = [r \in Runs |-> cancelReq[r] \/ InLoop(r)]
    /\ UNCHANGED <<content, cache, pc, ctx, cur, alias, i, attempt,
                   started, stopped, atStop, unread, sub, flagVars, segVars, call>>

\* The loop of update_feedback: the first task whose id is task_id gets the
\* hint, its translation moves to old_trans, and it is pending again.
FeedbackTarget(tasks, task_id) ==
    {q \in 1..Len(tasks) :
        /\ tasks[q].id = task_id
        /\ \A q2 \in 1..(q-1) : tasks[q2].id # task_id}

ApplyFeedback(t, hint) ==
    [t EXCEPT !.old_trans = t.trans, !.user_hint = hint,
              !.status = "pending", !.trans = 0]

\* POST /api/feedback/update: nothing is written when the file is missing,
\* cannot be loaded, or holds no task of that id.
update_feedback(task_id, hint) ==
    /\ cache.state = "ok"
    /\ \E q \in FeedbackTarget(cache.tasks, task_id) :
          cache' = [cache EXCEPT !.tasks[q] = ApplyFeedback(cache.tasks[q], hint)]
    /\ atStop' = NoFile
    /\ FileWritten
    /\ UNCHANGED <<content, STOP_FLAGS, pc, ctx, cur, alias, i, attempt,
                   started, stopped, cancelReq, flagVars, segVars, call>>

\* The merge of extract_text_and_save_assets_smart: the four history fields
\* are copied into the fresh task (id and type stay fresh); the status is
\* copied as it is.  old_map is built by one dict comprehension, so a record
\* without chunk_hash leaves no map at all and nothing is copied.
ExtractMerge(c, file) ==
    LET raw == build_initial_tasks(c)
    IN [p \in 1..Len(c) |->
          IF /\ HasCached(file, raw[p].chunk_hash)
             /\ Indexed(file.tasks) = 1..Len(file.tasks)
          THEN LET t == CachedTask(file, raw[p].chunk_hash)
               IN [raw[p] EXCEPT !.trans = t.trans, !.status = t.status,
                                 !.user_hint = t.user_hint,
                                 !.old_trans = t.old_trans]
          ELSE raw[p]]

\* POST /api/workflow/extract/{filename}: the context file is rewritten
\* (c: what the current layout annotations extract to) and the snapshot
\* is rebuilt from it and the old snapshot.
trigger_extract(c) ==
    /\ content' = c
    /\ cache' = SnapshotOf(ExtractMerge(c, cache), c)
    /\ atStop' = NoFile
    /\ FileWritten
    /\ UNCHANGED <<STOP_FLAGS, pc, ctx, cur, alias, i, attempt,
                   started, stopped, cancelReq, flagVars, segVars, call>>

\* ----------------------------------------------------- run_smart_analysis

\* for/continue: the loop moves to the next position, or ends.
Advance_break(r, tasks) == pc' = [pc EXCEPT ![r] = "final"] /\ i' = i
Advance(r, tasks) ==
    IF i[r] < Len(tasks)
    THEN /\ pc' = [pc EXCEPT ![r] = "loop"]
         /\ i' = [i EXCEPT ![r] = i[r] + 1]
    ELSE /\ pc' = [pc EXCEPT ![r] = "final"]
         /\ i' = i

\* Reading the context file and the snapshot, the merge, pending_tasks.
RunMerge(r) ==
    /\ pc[r] = "start"
    /\ LET tasks == MergeTasks(content, cache)
       IN /\ ctx' = [ctx EXCEPT ![r] = content]
          /\ cur' = [cur EXCEPT ![r] = tasks]
          /\ alias' = [alias EXCEPT ![r] = MergeAlias(content, cache)]
          /\ IF \E p \in 1..Len(tasks) : tasks[p].status = "pending"
             THEN /\ pc' = [pc EXCEPT ![r] = "loop"]
                  /\ i' = [i EXCEPT ![r] = 1]
             ELSE /\ pc' = [pc EXCEPT ![r] = "final"]
                  /\ i' = i
    /\ atStop' = NoFile
    /\ UNCHANGED <<content, cache, STOP_FLAGS, attempt, started, stopped,
                   cancelReq, requests, unread, sub, flagVars, segVars, call>>

\* The stop branch: a processing task at the loop position is rolled back,
\* the snapshot is saved, the loop is left.
LoopStop(r) ==
    /\ pc[r] = "loop"
    /\ Doc \in STOP_FLAGS
    /\ LET t == cur[r][i[r]]
           tasks == IF t.status = "processing"
                    THEN Touch(cur[r], alias[r], i[r], [t EXCEPT !.status = "pending"])
                    ELSE cur[r]
       IN /\ cur' = [cur EXCEPT ![r] = tasks]
          /\ cache' = SnapshotOf(tasks, ctx[r])
    /\ FileWritten
    /\ pc' = [pc EXCEPT ![r] = "final"]
    /\ stopped' = [stopped EXCEPT ![r] = TRUE]
    /\ UNCHANGED <<content, STOP_FLAGS, ctx, alias, i, attempt, started,
                   cancelReq, atStop, requests, flagVars, segVars, call>>

\* `if task["status"] != "pending": continue`
LoopSkip(r) ==
    /\ pc[r] = "loop"
    /\ Doc \notin STOP_FLAGS
    /\ cur[r][i[r]].status # "pending"
    /\ Advance(r, cur[r])
    /\ UNCHANGED <<content, cache, STOP_FLAGS, ctx, cur, alias, attempt,
                   started, stopped, cancelReq, atStop, requests, unread, sub,
                   flagVars, segVars, call>>

\* The task is marked processing and the snapshot saved; the provider is
\* called next.
LoopStart(r) ==
    /\ pc[r] = "loop"
    /\ Doc \notin STOP_FLAGS
    /\ cur[r][i[r]].status = "pending"
    /\ LET tasks == Touch(cur[r], alias[r], i[r],
                          [cur[r][i[r]] EXCEPT !.status = "processing"])
       IN /\ cur' = [cur EXCEPT ![r] = tasks]
          /\ cache' = SnapshotOf(tasks, ctx[r])
    /\ FileWritten
    /\ pc' = [pc EXCEPT ![r] = "call"]
    /\ call' = [call EXCEPT ![r] = Strategy(cur[r][i[r]])]
    /\ attempt' = [attempt EXCEPT ![r] = 0]
    /\ started' = [started EXCEPT ![r] = Append(started[r], i[r])]
    /\ UNCHANGED <<content, STOP_FLAGS, ctx, alias, i, stopped, cancelReq,
                   atStop, requests, flagVars, segVars>>

\* One pass of `for attempt in range(3)`: the provider answers resp.  The
\* task leaves the attempt loop as success, or as failed after the last
\* attempt, and the snapshot is saved; otherwise the next attempt follows.
ProviderReturn(r, resp) ==
    /\ pc[r] = "call"
    /\ LET t == cur[r][i[r]]
       IN IF AttemptSucceeds(resp)
          THEN LET tasks == Touch(cur[r], alias[r], i[r],
                                  [t EXCEPT !.trans = Strip(StripFence(resp)),
                                            !.status = "success"])
               IN /\ cur' = [cur EXCEPT ![r] = tasks]
                  /\ cache' = SnapshotOf(tasks, ctx[r])
                  /\ FileWritten
                  /\ call' = [call EXCEPT ![r] = NoCall]
                  /\ attempt' = [attempt EXCEPT ![r] = 0]
                  /\ Advance(r, tasks)
          ELSE IF attempt[r] + 1 >= MaxAttempts
          THEN LET tasks == Touch(cur[r], alias[r], i[r],
                                  [t EXCEPT !.status = "failed"])
               IN /\ cur' = [cur EXCEPT ![r] = tasks]
                  /\ cache' = SnapshotOf(tasks, ctx[r])
                  /\ FileWritten
                  /\ call' = [call EXCEPT ![r] = NoCall]
                  /\ attempt' = [attempt EXCEPT ![r] = 0]
                  /\ Advance(r, tasks)
          ELSE /\ attempt' = [attempt EXCEPT ![r] = attempt[r] + 1]
               /\ UNCHANGED <<cur, cache, pc, i, unread, sub, call>>
    /\ UNCHANGED <<content, STOP_FLAGS, ctx, alias, started, stopped,
                   cancelReq, atStop, requests, flagVars, segVars>>

\* Stage three: the result file and the last save of the snapshot; the
\* function returns and its locals are gone.
RunFinal(r) ==
    /\ pc[r] = "final"
    /\ cache' = SnapshotOf(cur[r], ctx[r])
    /\ FileWritten
    /\ pc' = [pc EXCEPT ![r] = "idle"]
    /\ ctx' = [ctx EXCEPT ![r] = <<>>]
    /\ cur' = [cur EXCEPT ![r] = <<>>]
    /\ alias' = [alias EXCEPT ![r] = <<>>]
    /\ i' = [i EXCEPT ![r] = 0]
    /\ attempt' = [attempt EXCEPT ![r] = 0]
    /\ started' = [started EXCEPT ![r] = <<>>]
    /\ stopped' = [stopped EXCEPT ![r] = FALSE]
    /\ cancelReq' = [cancelReq EXCEPT ![r] = FALSE]
    /\ UNCHANGED <<content, STOP_FLAGS, atStop, requests, flagVars, segVars, call>>

RunStep(r) ==
    \/ RunMerge(r)
    \/ LoopStop(r)
    \/ LoopSkip(r)
    \/ LoopStart(r)
    \/ \E resp \in Responses : ProviderReturn(r, resp)
    \/ RunFinal(r)

\* ------------------------------------------------------- the process dies

\* Every thread, every open event stream and the in-memory STOP_FLAGS are
\* gone; the file stays.
Restarted ==
    /\ STOP_FLAGS' = {}
    /\ pc' = [r \in Runs |-> "idle"]
    /\ ctx' = [r \in Runs |-> <<>>]
    /\ cur' = [r \in Runs |-> <<>>]
    /\ alias' = [r \in Runs |-> <<>>]
    /\ i' = [r \in Runs |-> 0]
    /\ attempt' = [r \in Runs |-> 0]
    /\ started' = [r \in Runs |-> <<>>]
    /\ stopped' = [r \in Runs |-> FALSE]
    /\ cancelReq' = [r \in Runs |-> FALSE]
    /\ unread' = FALSE
    /\ sub' = NoSub
    /\ call' = [r \in Runs |-> NoCall]
    /\ UNCHANGED <<flagVars, segVars>>

\* The process stops between two writes.
Crash ==
    /\ \E r \in Runs : Active(r)
    /\ Restarted
    /\ atStop' = cache
    /\ UNCHANGED <<content, cache, requests>>

\* The next step of run r saves the snapshot.
AboutToSave(r) ==
    \/ pc[r] \in {"call", "final"}
    \/ pc[r] = "loop" /\ (Doc \in STOP_FLAGS \/ cur[r][i[r]].status = "pending")

\* The process stops inside _save_cache, after open(path, 'w') truncated the
\* file and before json.dump completed.
CrashInSave ==
    /\ \E r \in Runs : AboutToSave(r)
    /\ Restarted
    /\ atStop' = cache
    /\ cache' = TornFile
    /\ UNCHANGED <<content, requests>>

\* The server as it is: every request is served when it arrives, so a run
\* can be started while another one is active.  A behaviour holds up to
\* MaxRequests client requests.
Init == InitOver(InputsUpTo(ServerChunks))

Request == requests < MaxRequests /\ requests' = requests + 1

Next ==
    \/ \E r \in Runs : Request /\ trigger_translate(r)
    \/ \E r \in Runs : Request /\ rerun_feedback(r)
    \/ \E r \in Runs : Request /\ handle_trigger_rerun(r)
    \/ Request /\ stop_translate
    \/ \E k \in 0..(Len(content) - 1), h \in Hints :
          Request /\ update_feedback(k, h)
    \/ \E c \in {content} : Request /\ trigger_extract(c)
    \/ \E r \in Runs : RunStep(r)
    \/ Crash
    \/ CrashInSave

Spec == Init /\ [][Next]_vars

\* The same server with a client that starts a run only when none is
\* active (the page offers the buttons that way); everything else arrives
\* at any time.
NoRunActive == \A r \in Runs : ~Active(r)

SerialInit == InitOver(InputsUpTo(MaxChunks))

SerialNext ==
    \/ \E r \in Runs : NoRunActive /\ trigger_translate(r) /\ UNCHANGED requests
    \/ \E r \in Runs : NoRunActive /\ rerun_feedback(r) /\ UNCHANGED requests
    \/ \E r \in Runs : NoRunActive /\ handle_trigger_rerun(r) /\ UNCHANGED requests
    \/ stop_translate /\ UNCHANGED requests
    \/ \E k \in 0..(Len(content) - 1), h \in Hints :
          update_feedback(k, h) /\ UNCHANGED requests
    \/ \E c \in {content} : trigger_extract(c) /\ UNCHANGED requests
    \/ \E r \in Runs : RunStep(r)
    \/ Crash
    \/ CrashInSave

SerialSpec == SerialInit /\ [][SerialNext]_vars

\* The same server started on a document that was translated before, whose
\* snapshot file holds one task record without chunk_hash.
Translated(c) ==
    [p \in 1..Len(c) |->
        [FreshTask(p, c[p]) EXCEPT !.status = "success", !.trans = 1]]

WithoutHash(tasks, q) == [tasks EXCEPT ![q].chunk_hash = NoHash]

LoadInit ==
    /\ AtStart(InputsUpTo(MaxChunks))
    /\ SegAtRest
    /\ \E q \in 1..Len(content) :
          cache = SnapshotOf(WithoutHash(Translated(content), q), content)

LoadSpec == LoadInit /\ [][SerialNext]_vars

\* The same server with a client that submits any hint: the empty string, a
\* visible text, or whitespace only.
AnyHints == {0, 1, BlankHint}

CorrectionNext ==
    \/ \E r \in Runs : NoRunActive /\ trigger_translate(r) /\ UNCHANGED requests
    \/ \E r \in Runs : NoRunActive /\ rerun_feedback(r) /\ UNCHANGED requests
    \/ \E r \in Runs : NoRunActive /\ handle_trigger_rerun(r) /\ UNCHANGED requests
    \/ stop_translate /\ UNCHANGED requests
    \/ \E k \in 0..(Len(content) - 1), h \in AnyHints :
          update_feedback(k, h) /\ UNCHANGED requests
    \/ \E c \in {content} : trigger_extract(c) /\ UNCHANGED requests
    \/ \E r \in Runs : RunStep(r)
    \/ Crash
    \/ CrashInSave

CorrectionSpec == SerialInit /\ [][CorrectionNext]_vars

\* The same, on documents of up to WideChunks chunks.
WideInit == InitOver(InputsUpTo(WideChunks))
WideSpec == WideInit /\ [][SerialNext]_vars

\* The same with the scheduling the thread pool gives: a run that can take
\* a step takes one (every provider call returns or raises).
FairSerialSpec == SerialSpec /\ \A r \in Runs : WF_vars(RunStep(r))

\* ------------------------------------------------------- the event stream

\* `if tasks and all(t.get("status") == "success" for t in tasks)`
StreamComplete_any(tasks) ==
    \E p \in 1..Len(tasks) : tasks[p].status = "success"
StreamComplete(tasks) ==
    Len(tasks) > 0 /\ \A p \in 1..Len(tasks) : tasks[p].status = "success"

SuccessCount(tasks) ==
    Cardinality({p \in 1..Len(tasks) : tasks[p].status = "success"})

\* GET /api/stream/translation/{filename}: a generator starts with
\* last_mod_time = 0, so any file there is counts as new.  (One stream is
\* followed; a second one opened meanwhile behaves the same way.)
stream_translation_progress ==
    /\ sub.state # "open"
    /\ sub' = [state |-> "open", last |-> -1]
    /\ unread' = (cache.state # "missing")
    /\ UNCHANGED <<content, cache, STOP_FLAGS, pc, ctx, cur, alias, i, attempt,
                   started, stopped, cancelReq, atStop, requests,
                   flagVars, segVars, call>>

\* A tick of event_generator that finds a newer mtime, with the read going
\* through: last_mod_time is advanced, the tasks are sent as a snapshot
\* event, and when they are complete the close event follows and the
\* generator returns.
TickDeliver ==
    /\ sub.state = "open"
    /\ unread
    /\ cache.state = "ok"
    /\ unread' = FALSE
    /\ sub' = [state |-> IF StreamComplete(cache.tasks) THEN "done" ELSE "open",
               last |-> SuccessCount(cache.tasks)]
    /\ UNCHANGED <<content, cache, STOP_FLAGS, pc, ctx, cur, alias, i, attempt,
                   started, stopped, cancelReq, atStop, requests,
                   flagVars, segVars, call>>

\* The same tick with open() or json.load raising (the file is torn, or is
\* read while it is rewritten, or open fails): last_mod_time was advanced
\* before the read, the exception is printed, nothing is sent.
TickReadFails ==
    /\ sub.state = "open"
    /\ unread
    /\ cache.state \in {"ok", "corrupt"}
    /\ unread' = FALSE
    /\ UNCHANGED <<content, cache, STOP_FLAGS, pc, ctx, cur, alias, i, attempt,
                   started, stopped, cancelReq, atStop, requests, sub,
                   flagVars, segVars, call>>

\* The server of SerialSpec with a subscriber on the event stream.
ChannelNext ==
    \/ \E r \in Runs : NoRunActive /\ trigger_translate(r) /\ UNCHANGED requests
    \/ \E r \in Runs : NoRunActive /\ rerun_feedback(r) /\ UNCHANGED requests
    \/ \E r \in Runs : NoRunActive /\ handle_trigger_rerun(r) /\ UNCHANGED requests
    \/ stop_translate /\ UNCHANGED requests
    \/ \E k \in 0..(Len(content) - 1), h \in Hints :
          update_feedback(k, h) /\ UNCHANGED requests
    \/ \E c \in {content} : trigger_extract(c) /\ UNCHANGED requests
    \/ \E r \in Runs : RunStep(r)
    \/ Crash
    \/ CrashInSave
    \/ stream_translation_progress
    \/ TickDeliver
    \/ TickReadFails

ChannelSpec == SerialInit /\ [][ChannelNext]_vars

\* The same with the scheduling of the thread pool and of the event loop: a
\* run that can take a step takes one, and reads do not fail for ever: a
\* stream that again and again has a readable newer file sends one.
FairChannelSpec ==
    /\ ChannelSpec
    /\ \A r \in Runs : WF_vars(RunStep(r))
    /\ SF_vars(TickDeliver)

\* ------------------------------------- STOP_FLAGS under concurrent requests

\* The handlers that call request_stop and clear_stop are plain `def`
\* handlers: each request runs in a thread of the pool, and a thread can be
\* switched out between two operations on the set.  FlagsSpec follows the
\* flag operations of MaxFlagThreads such threads on two documents and
\* leaves the rest of the server at rest.
Docs == {Doc, "other"}

restVarsNoSeg == <<content, cache, pc, ctx, cur, alias, i, attempt, started,
                   stopped, cancelReq, atStop, requests, unread, sub, call>>
restVars == <<restVarsNoSeg, segVars>>

Free(t) == handler[t][1] # "remove"

\* request_stop: STOP_FLAGS.add(raw_name)
call_request_stop(t, d) ==
    /\ Free(t)
    /\ STOP_FLAGS' = request_stop(STOP_FLAGS, d)
    /\ handler' = [handler EXCEPT ![t] = <<"idle">>]
    /\ UNCHANGED <<raised, restVars>>

\* `current_raw_name in STOP_FLAGS` of the engine's loop
lookup(t, d) ==
    /\ Free(t)
    /\ handler' = [handler EXCEPT ![t] = <<"saw", d, d \in STOP_FLAGS>>]
    /\ UNCHANGED <<STOP_FLAGS, raised, restVars>>

\* clear_stop, `if raw_name in STOP_FLAGS:`
clear_stop_test(t, d) ==
    /\ Free(t)
    /\ handler' = [handler EXCEPT ![t] = IF d \in STOP_FLAGS
                                         THEN <<"remove", d>>
                                         ELSE <<"idle">>]
    /\ UNCHANGED <<STOP_FLAGS, raised, restVars>>

\* clear_stop, `STOP_FLAGS.remove(raw_name)`: set.remove raises KeyError
\* when the element is not there.
clear_stop_remove(t) ==
    /\ handler[t][1] = "remove"
    /\ IF handler[t][2] \in STOP_FLAGS
       THEN STOP_FLAGS' = STOP_FLAGS \ {handler[t][2]} /\ raised' = raised
       ELSE STOP_FLAGS' = STOP_FLAGS /\ raised' = raised \cup {t}
    /\ handler' = [handler EXCEPT ![t] = <<"idle">>]
    /\ UNCHANGED restVars

FlagsInit == InitOver({<<1>>}) /\ cache = NoFile

FlagsNext ==
    \/ \E t \in FlagThreads, d \in Docs : call_request_stop(t, d)
    \/ \E t \in FlagThreads, d \in Docs : lookup(t, d)
    \/ \E t \in FlagThreads, d \in Docs : clear_stop_test(t, d)
    \/ \E t \in FlagThreads : clear_stop_remove(t)

FlagsSpec == FlagsInit /\ [][FlagsNext]_vars

\* --------------------------------------------------------- segmentation

\* The text stream as the patterns of the segmentation see it: a sequence of
\* blocks separated by blank lines.  A block is a metadata marker
\* [[META_..]] ("M"), a header marker [[HEADER: ..]] ("H"), the header
\* marker of the reference list [[HEADER: References]] ("R"), a resource
\* marker [[ASSET_INSERT: ..]] ("I"), the line --- ASSETS METADATA ---
\* with what follows it ("A"), or a paragraph of plain text of one, two or
\* three length units ("P1", "P2", "P3").  A chunk is written as the
\* positions of the blocks that make its text.
Paragraphs == {"P1", "P2", "P3"}
Blocks == {"M", "H", "R", "I", "A"} \cup Paragraphs

Streams == UNION {[1..n -> Blocks] : n \in 0..MaxBlocks}

\* len() of a block that is kept as text, in units of MAX_CHUNK_CHARS / 2.
\* A marker that no pattern recognises where it stands is short plain text.
BlockLen(b) == CASE b = "P2" -> 2 [] b = "P3" -> 3 [] OTHER -> 1

FirstOf(S) == IF S = {} THEN 0 ELSE Min(S)
LastOf(S) == IF S = {} THEN 0 ELSE Max(S)

\* split_content_smart: the resource block starts at the last assets line;
\* the reference part starts at the first reference header before it; the
\* metadata part is the run of metadata markers the rest starts with.  The
\* parts are given by their bounds: metadata 1..metaEnd, body
\* metaEnd+1..bodyEnd, references bodyEnd+1..restEnd, resources after that.
RECURSIVE MetaRun(_, _, _)
MetaRun(s, k, hi) ==
    IF k <= hi /\ s[k] = "M" THEN MetaRun(s, k + 1, hi) ELSE k - 1

split_content_smart(s) ==
    LET assetAt == LastOf({k \in 1..Len(s) : s[k] = "A"})
        restEnd == IF assetAt = 0 THEN Len(s) ELSE assetAt - 1
        refAt == FirstOf({k \in 1..restEnd : s[k] = "R"})
        bodyEnd == IF refAt = 0 THEN restEnd ELSE refAt - 1
    IN [metaEnd |-> MetaRun(s, 1, bodyEnd), bodyEnd |-> bodyEnd,
        restEnd |-> restEnd]

\* `if buffer_len + len(p) > max_chars and buffer:`
FlushDue_anyway(buffer, buffer_len, plen) == buffer_len + plen > MAX_CHUNK_CHARS
FlushDue(buffer, buffer_len, plen) ==
    buffer_len + plen > MAX_CHUNK_CHARS /\ buffer # <<>>

\* layout_map[current_chunk_idx].extend(found_inserts)
Attach(layout, idx, found) == layout \cup {<<idx, m>> : m \in found}

\* The loop over the paragraphs of one body segment and the flush after it.
\* acc: final_chunks, layout_map, current_chunk_idx, buffer, buffer_len and
\* found_inserts as they stand.
RECURSIVE ParagraphLoop(_, _, _, _)
ParagraphLoop(s, paras, j, acc) ==
    IF j > Len(paras)
    THEN IF acc.buffer # <<>>
         THEN [acc EXCEPT
                 !.chunks = Append(acc.chunks, [type |-> "body", text |-> acc.buffer]),
                 !.layout = Attach(acc.layout, acc.idx, acc.found),
                 !.idx = acc.idx + 1,
                 !.buffer = <<>>, !.buffer_len = 0, !.found = {}]
         ELSE [acc EXCEPT !.found = {}]
    ELSE LET plen == BlockLen(s[paras[j]])
             flushed ==
                IF FlushDue(acc.buffer, acc.buffer_len, plen)
                THEN [acc EXCEPT
                        !.chunks = Append(acc.chunks,
                                          [type |-> "body", text |-> acc.buffer]),
                        !.layout = Attach(acc.layout, acc.idx, acc.found),
                        !.idx = acc.idx + 1,
                        !.buffer = <<>>, !.buffer_len = 0, !.found = {}]
                ELSE acc
         IN ParagraphLoop(s, paras, j + 1,
               [flushed EXCEPT !.buffer = Append(flushed.buffer, paras[j]),
                               !.buffer_len = flushed.buffer_len + plen])

\* The positions lo..hi that are not resource markers, in order.
RECURSIVE TextOf(_, _, _)
TextOf(s, lo, hi) ==
    IF lo > hi THEN <<>>
    ELSE IF s[lo] = "I" THEN TextOf(s, lo + 1, hi)
    ELSE <<lo>> \o TextOf(s, lo + 1, hi)

\* header_pattern.split: the segment that starts at k ends before the next
\* header marker.
RECURSIVE SegmentEnd(_, _, _)
SegmentEnd(s, k, hi) ==
    IF k < hi /\ s[k + 1] # "H" THEN SegmentEnd(s, k + 1, hi) ELSE k

\* The loop over the segments of split_text_into_chunks_with_layout, on the
\* blocks k..hi.
RECURSIVE SegmentLoop(_, _, _, _)
SegmentLoop(s, k, hi, acc) ==
    IF k > hi THEN acc
    ELSE IF s[k] = "H"
    THEN SegmentLoop(s, k + 1, hi,
            [acc EXCEPT !.chunks = Append(acc.chunks,
                                          [type |-> "header", text |-> <<k>>]),
                        !.idx = acc.idx + 1])
    ELSE LET e == SegmentEnd(s, k, hi)
             found_inserts == {m \in k..e : s[m] = "I"}
             clean_seg == TextOf(s, k, e)
         IN SegmentLoop(s, e + 1, hi,
               IF clean_seg = <<>>
               THEN [acc EXCEPT !.layout = Attach(acc.layout, acc.idx, found_inserts)]
               ELSE ParagraphLoop(s, clean_seg, 1,
                                  [acc EXCEPT !.found = found_inserts]))

split_text_into_chunks_with_layout(s, lo, hi) ==
    LET r == SegmentLoop(s, lo, hi,
                [chunks |-> <<>>, layout |-> {}, idx |-> 0,
                 buffer |-> <<>>, buffer_len |-> 0, found |-> {}])
    IN [chunks |-> r.chunks, layout |-> r.layout]

Interval(lo, hi) == [k \in 1..(hi - lo + 1) |-> lo + k - 1]

\* build_initial_tasks, steps 2 and 3: raw_chunks and layout_map_global.
\* local_layout_map is copied for the indices of body_parts only.
raw_chunks(s) ==
    LET parts == split_content_smart(s)
        meta == IF parts.metaEnd >= 1
                THEN <<[type |-> "meta", text |-> Interval(1, parts.metaEnd)]>>
                ELSE <<>>
        body == split_text_into_chunks_with_layout(s, parts.metaEnd + 1,
                                                   parts.bodyEnd)
        asset == IF parts.restEnd < Len(s)
                 THEN <<[type |-> "asset",
                         text |-> Interval(parts.restEnd + 1, Len(s))]>>
                 ELSE <<>>
        offset == Len(meta)
    IN [done |-> TRUE,
        chunks |-> meta \o body.chunks \o asset,
        layout |-> {<<pr[1] + offset, pr[2]>> :
                       pr \in {q \in body.layout : q[1] < Len(body.chunks)}}]

\* Segmentation taken alone: a stream is given, and segmented.
Segment ==
    /\ ~segmented.done
    /\ segmented' = raw_chunks(segText)
    /\ UNCHANGED <<segText, splitIn, splitOut, STOP_FLAGS, flagVars,
                   restVarsNoSeg>>

SegInit ==
    /\ segText \in Streams
    /\ segmented = NotSegmented
    /\ splitIn = NoText
    /\ splitOut = NotSplit
    /\ content = <<1>>
    /\ cache = NoFile
    /\ STOP_FLAGS = {}
    /\ pc = [r \in Runs |-> "idle"]
    /\ ctx = [r \in Runs |-> <<>>]
    /\ cur = [r \in Runs |-> <<>>]
    /\ alias = [r \in Runs |-> <<>>]
    /\ i = [r \in Runs |-> 0]
    /\ attempt = [r \in Runs |-> 0]
    /\ call = [r \in Runs |-> NoCall]
    /\ started = [r \in Runs |-> <<>>]
    /\ stopped = [r \in Runs |-> FALSE]
    /\ cancelReq = [r \in Runs |-> FALSE]
    /\ atStop = NoFile
    /\ requests = 0
    /\ unread = FALSE
    /\ sub = NoSub
    /\ FlagsAtRest

SegNext == Segment

SegSpec == SegInit /\ [][SegNext]_vars

\* ------------------------------------------- split_long_buffer_safely

\* A text is given as the lengths of its sentences: the parts between the
\* places where the split pattern matches (whitespace after . ? ! ; and
\* before a capital letter or digit, not after a protected abbreviation).
\* One space stands between two sentences; a piece is a run of sentences
\* joined by one space.
Texts ==
    UNION {[1..n -> 1..MaxSentenceLen] : n \in 1..MaxSentences}

RECURSIVE SumOf(_, _)
SumOf(seq, n) == IF n = 0 THEN 0 ELSE seq[n] + SumOf(seq, n - 1)

\* len() of a piece
PieceLen(piece) ==
    IF piece = <<>> THEN 0 ELSE SumOf(piece, Len(piece)) + Len(piece) - 1

\* `if len(current_chunk) + len(sentence) > max_len and current_chunk:`
CloseDue(current_chunk, sentence, max_len) ==
    PieceLen(current_chunk) + sentence > max_len /\ current_chunk # <<>>

\* The loop over the sentences and the append after it.
RECURSIVE SentenceLoop(_, _, _, _, _)
SentenceLoop(sentences, j, chunks, current_chunk, max_len) ==
    IF j > Len(sentences)
    THEN IF current_chunk # <<>> THEN Append(chunks, current_chunk) ELSE chunks
    ELSE IF CloseDue(current_chunk, sentences[j], max_len)
    THEN SentenceLoop(sentences, j + 1, Append(chunks, current_chunk),
                      <<sentences[j]>>, max_len)
    ELSE SentenceLoop(sentences, j + 1, chunks,
                      Append(current_chunk, sentences[j]), max_len)

split_long_buffer_safely(sentences, max_len) ==
    IF PieceLen(sentences) <= max_len
    THEN <<sentences>>
    ELSE SentenceLoop(sentences, 1, <<>>, <<>>, max_len)

\* The function taken alone: a text and a cap are given, the text is split.
Split ==
    /\ ~splitOut.done
    /\ splitOut' = [done |-> TRUE,
                    pieces |-> split_long_buffer_safely(splitIn.sentences,
                                                        splitIn.max_len)]
    /\ UNCHANGED <<splitIn, segText, segmented, STOP_FLAGS, flagVars,
                   restVarsNoSeg>>

SplitInit ==
    /\ AtStart({<<1>>})
    /\ cache = NoFile
    /\ segText = <<>>
    /\ segmented = NotSegmented
    /\ splitIn \in [sentences : Texts, max_len : 1..MaxLen]
    /\ splitOut = NotSplit

SplitNext == Split

SplitSpec == SplitInit /\ [][SplitNext]_vars

\* ------------------------------------------------------------ properties

Positions(tasks) == 1..Len(tasks)
SourcesOf(tasks) == [p \in Positions(tasks) |-> tasks[p].src]
WithStatus(tasks, st) == {p \in Positions(tasks) : tasks[p].status = st}

\* C1: when a run ends for which cancellation was requested while it worked
\* through its N tasks, the snapshot it persists holds exactly N tasks, one
\* per chunk of the text it read and in that order, none of them processing,
\* each of them pending, success or failed.
C1_CancelledRunSnapshot ==
    [][\A r \in Runs :
          (cancelReq[r] /\ RunFinal(r)) =>
             /\ cache'.state = "ok"
             /\ Len(cache'.tasks) = Len(cur[r])
             /\ SourcesOf(cache'.tasks) = ctx[r]
             /\ WithStatus(cache'.tasks, "processing") = {}
             /\ \A p \in Positions(cache'.tasks) :
                   cache'.tasks[p].status \in {"pending", "success", "failed"}]_vars

\* C1 happens: a run has left its loop by the stop branch with a finished
\* and an unfinished task, and the snapshot of the stop branch is on disk.
C1_Witness ==
    \E r \in Runs :
        /\ pc[r] = "final" /\ cancelReq[r] /\ stopped[r]
        /\ WithStatus(cur[r], "success") # {}
        /\ WithStatus(cur[r], "pending") # {}
        /\ cache = SnapshotOf(cur[r], ctx[r])

\* What the merge owes a task it carries over: a failed task may be retried
\* (pending), everything else of it stays.
CarriedOver(old, new) ==
    /\ new.status = (IF old.status = "failed" THEN "pending" ELSE old.status)
    /\ new.trans = old.trans
    /\ new.user_hint = old.user_hint
    /\ new.old_trans = old.old_trans

\* C2: when the snapshot holds exactly one processing task and the input
\* text is the one it was made from, the merge at the start of the next run
\* makes that task pending and leaves status, translated text, user hint and
\* previous translation of every other task as they were (read with the
\* retry of failed tasks allowed).
C2_MergeHealsOnlyTheProcessingTask ==
    [][\A r \in Runs :
          (/\ RunMerge(r)
           /\ cache.state = "ok"
           /\ SourcesOf(cache.tasks) = content
           /\ Cardinality(WithStatus(cache.tasks, "processing")) = 1) =>
             \A p \in Positions(cache.tasks) :
                 IF cache.tasks[p].status = "processing"
                 THEN cur'[r][p].status = "pending"
                 ELSE CarriedOver(cache.tasks[p], cur'[r][p])]_vars

\* C3: after the process stopped during a run, the merge of the next run
\* keeps every task that was success in the snapshot durable before the stop
\* success with its translated text (so that only the task in flight is
\* translated again).
C3_StopLosesAtMostTheTaskInFlight ==
    [][\A r \in Runs :
          (RunMerge(r) /\ atStop.state = "ok") =>
             \A p \in WithStatus(atStop.tasks, "success") :
                 /\ cur'[r][p].status = "success"
                 /\ cur'[r][p].trans = atStop.tasks[p].trans]_vars

\* C4: a run that starts on a snapshot in which every task is success, and
\* on the input text that snapshot was made from, calls the provider for no
\* task and ends with the task list it found, ids and texts included.
C4_SecondRunIsIdentity ==
    [][\A r \in Runs :
          (/\ RunMerge(r)
           /\ cache.state = "ok"
           /\ SourcesOf(cache.tasks) = content
           /\ WithStatus(cache.tasks, "success") = Positions(cache.tasks)) =>
             /\ pc'[r] = "final"
             /\ cur'[r] = cache.tasks
             /\ SnapshotOf(cur'[r], ctx'[r]) = cache]_vars

\* A correction of a translated task that was submitted and not yet executed.
AwaitsCorrection(t) ==
    t.status = "pending" /\ t.user_hint # 0 /\ t.old_trans # 0

\* C5: a correction with hint H on a success task with translated text T
\* makes it pending with previous translation T and user hint H; the next
\* run takes the task over as it is, and when it executes it successfully
\* the task is success with the new text, previous translation and user
\* hint kept, in memory and in the snapshot.
C5_CorrectionRoundTrip ==
    [][/\ \A k \in 0..(Len(content) - 1), h \in Hints :
             update_feedback(k, h) =>
                \A q \in FeedbackTarget(cache.tasks, k) :
                    cache.tasks[q].status = "success" =>
                       /\ cache'.tasks[q].status = "pending"
                       /\ cache'.tasks[q].old_trans = cache.tasks[q].trans
                       /\ cache'.tasks[q].user_hint = h
       /\ \A r \in Runs :
             (RunMerge(r) /\ cache.state = "ok" /\ SourcesOf(cache.tasks) = content) =>
                \A p \in Positions(cache.tasks) :
                    AwaitsCorrection(cache.tasks[p]) =>
                       /\ cur'[r][p].status = "pending"
                       /\ cur'[r][p].old_trans = cache.tasks[p].old_trans
                       /\ cur'[r][p].user_hint = cache.tasks[p].user_hint
       /\ \A r \in Runs, resp \in Responses :
             (ProviderReturn(r, resp) /\ cur'[r][i[r]].status = "success") =>
                /\ cur'[r][i[r]].old_trans = cur[r][i[r]].old_trans
                /\ cur'[r][i[r]].user_hint = cur[r][i[r]].user_hint
                /\ cache'.tasks[i[r]] = cur'[r][i[r]]]_vars

\* The response is empty: the call raised, or nothing is left of the text
\* once the code fence wrapping is taken off.
EmptyResponse(resp) == resp.kind \in {"raise", "empty", "fence"}

\* C6: an attempt is made only when fewer than 3 were made for the task in
\* this run; a non-empty response makes the task success at once; an empty
\* one leads to the next attempt, and after the third to failed; after
\* success or failed the run goes on with the next position, or to its last
\* save when there is none.
C6_BoundedAttempts ==
    [][\A r \in Runs, resp \in Responses :
          ProviderReturn(r, resp) =>
             /\ attempt[r] < 3
             /\ IF ~EmptyResponse(resp)
                THEN /\ cur'[r][i[r]].status = "success"
                     /\ cur'[r][i[r]].trans = resp.text
                ELSE IF attempt[r] = 2
                THEN cur'[r][i[r]].status = "failed"
                ELSE /\ cur'[r][i[r]].status = "processing"
                     /\ pc'[r] = "call" /\ i'[r] = i[r]
                     /\ attempt'[r] = attempt[r] + 1
             /\ cur'[r][i[r]].status \in {"success", "failed"} =>
                   /\ cache' = SnapshotOf(cur'[r], ctx[r])
                   /\ IF i[r] < Len(cur[r])
                      THEN pc'[r] = "loop" /\ i'[r] = i[r] + 1
                      ELSE pc'[r] = "final"]_vars

\* C6 happens: a task has failed, the run went on, and the third attempt
\* for a later task is about to be made.
C6_Witness ==
    \E r \in Runs :
        /\ pc[r] = "call" /\ attempt[r] = 2
        /\ \E p \in 1..(i[r] - 1) : cur[r][p].status = "failed"

NoRepeat(seq) == \A a, b \in 1..Len(seq) : a # b => seq[a] # seq[b]

\* C7: a run ends; when it was not cancelled, every task of its task set is
\* success or failed at its end and in the snapshot it then writes; no task
\* was started twice in the run.
C7_RunDrainsAndTerminates ==
    /\ [](\A r \in Runs :
            /\ NoRepeat(started[r])
            /\ (pc[r] = "final" /\ ~stopped[r]) =>
                  \A p \in Positions(cur[r]) :
                      cur[r][p].status \in {"success", "failed"})
    /\ [][\A r \in Runs :
            (RunFinal(r) /\ ~stopped[r]) =>
               \A p \in Positions(cache'.tasks) :
                   cache'.tasks[p].status \in {"success", "failed"}]_vars
    /\ \A r \in Runs : (pc[r] = "start") ~> (pc[r] = "idle")

\* C7 happens: a run that was never asked to stop has started every task
\* of a document of several chunks and is at its last save.
C7_Witness ==
    \E r \in Runs :
        /\ pc[r] = "final" /\ ~stopped[r] /\ ~cancelReq[r]
        /\ Len(ctx[r]) > 1
        /\ Len(started[r]) = Len(ctx[r])
        /\ WithStatus(cur[r], "failed") # {}
        /\ WithStatus(cur[r], "success") # {}

\* C8: within a run, the tasks for which the provider is called are started
\* in strictly ascending order of their id field.
C8_StartedInAscendingId ==
    \A r \in Runs :
        \A a, b \in 1..Len(started[r]) :
            a < b => cur[r][started[r][a]].id < cur[r][started[r][b]].id

\* C9: at most one execution loop is active for the document, so at most
\* one task is processing and at most one provider call is in flight.
C9_OneRunAtATime ==
    /\ Cardinality({r \in Runs : Active(r)}) <= 1
    /\ Cardinality({r \in Runs : pc[r] = "call"}) <= 1

\* C10: while a run is active, a step that changes the snapshot is a step
\* of a run (a save of the engine, completed or cut short).
C10_EngineIsOnlyWriter ==
    [][((\E r \in Runs : Active(r)) /\ cache' # cache) =>
          \/ \E r \in Runs : RunStep(r)
          \/ CrashInSave]_vars

\* C11: every step that starts a run of the document leaves the document's
\* cancellation flag cleared, whatever was set before (so that the new run
\* can be halted only by a cancellation requested after its start).
C11_StartClearsFlag ==
    [][\A r \in Runs :
          (~Active(r) /\ pc'[r] = "start") => Doc \notin STOP_FLAGS']_vars

\* C12: once cancellation was requested while the run was in its loop, and
\* stands, the run starts no further task and issues no further provider
\* call: the round trip in flight ends the task, and the run leaves the loop.
C12_NoCallAfterCancel ==
    [][\A r \in Runs :
          (cancelReq[r] /\ Doc \in STOP_FLAGS) =>
             /\ ~LoopStart(r)
             /\ \A resp \in Responses :
                   ProviderReturn(r, resp) => pc'[r] \in {"loop", "final"}
             /\ (pc[r] = "loop" /\ pc'[r] # pc[r]) => pc'[r] \in {"final", "idle"}]_vars

\* C13: the event stream sends its close event exactly once: a step closes
\* the stream only by sending a snapshot it read in which every task is
\* success, a snapshot sent with every task success always closes it, and
\* a closed stream sends nothing more.
C13_DoneExactlyWhenComplete ==
    [][/\ (sub.state = "open" /\ sub'.state = "done") =>
             /\ TickDeliver
             /\ \A p \in 1..Len(cache.tasks) : cache.tasks[p].status = "success"
       /\ (TickDeliver /\ \A p \in 1..Len(cache.tasks) :
                             cache.tasks[p].status = "success") =>
             sub'.state = "done"
       /\ sub.state = "done" =>
             /\ ~TickDeliver
             /\ sub'.state = "done" => sub' = sub]_vars

\* A stream was closed on a snapshot of two success tasks.
C13_Witness ==
    /\ sub.state = "done"
    /\ sub.last = 2
    /\ cache.state = "ok"
    /\ Len(cache.tasks) = 2

\* The run has ended: no run is active and the snapshot on disk holds no
\* task still to be translated (each one is success or failed).
RunHasEnded ==
    /\ NoRunActive
    /\ cache.state = "ok"
    /\ \A p \in 1..Len(cache.tasks) :
          cache.tasks[p].status \in {"success", "failed"}

\* C14: an event stream that is open once the run has ended eventually
\* ends, unless a new run, a correction or an extraction comes first.
C14_StreamEndsAfterRun ==
    (sub.state = "open" /\ RunHasEnded) ~> (sub.state # "open" \/ ~RunHasEnded)

\* C15: when the read of a snapshot that is whole on disk fails on a tick,
\* the stream stays open with nothing sent, and that snapshot is still due
\* to be read: a later tick reads it without the file being written again.
C15_FailedReadIsRetried ==
    [][(TickReadFails /\ cache.state = "ok") =>
          /\ sub' = sub
          /\ unread']_vars

\* The run of thread r has left its loop by the stop branch and the
\* snapshot that branch saved is the one on disk.
JustCancelled(r) ==
    pc[r] = "final" /\ stopped[r] /\ cache = SnapshotOf(cur[r], ctx[r])

\* The positions whose task (dict object) run r has started.
StartedBy(r) ==
    {p \in Positions(cur[r]) :
        \E k \in 1..Len(started[r]) : alias[r][started[r][k]] = alias[r][p]}

\* The snapshot left by a cancelled run r: no task is processing, and the
\* tasks the run did not start are pending (or success from an earlier run).
CancelledSnapshot(r) ==
    /\ WithStatus(cache.tasks, "processing") = {}
    /\ \A p \in Positions(cache.tasks) \ StartedBy(r) :
          cache.tasks[p].status \in {"pending", "success"}

\* C16: a snapshot event never holds fewer success tasks than the event
\* sent before it on the same stream; and the snapshot sent after a run was
\* cancelled holds no processing task, the tasks that the run did not start
\* being still pending.
C16_SuccessCountNeverDrops ==
    [][TickDeliver =>
          /\ sub.last >= 0 => SuccessCount(cache.tasks) >= sub.last
          /\ \A r \in Runs : JustCancelled(r) => CancelledSnapshot(r)]_vars

\* C17: no operation on the set of cancellation flags raises, whatever the
\* interleaving; an operation on one document leaves the flags of the
\* other documents as they were; and a completed request_stop leaves the
\* document's flag set, a completed clear_stop leaves it cleared, as in the
\* sequential order in which the operations completed.
C17_FlagOpsAreSafe ==
    /\ [](raised = {})
    /\ [][\A t \in FlagThreads, d \in Docs :
             /\ (call_request_stop(t, d) \/ lookup(t, d) \/ clear_stop_test(t, d)
                 \/ (clear_stop_remove(t) /\ handler[t][2] = d)) =>
                    STOP_FLAGS' \ {d} = STOP_FLAGS \ {d}
             /\ call_request_stop(t, d) => d \in STOP_FLAGS'
             /\ (clear_stop_remove(t) /\ handler[t][2] = d) =>
                    d \notin STOP_FLAGS']_vars

\* The chunks of a segmentation whose text holds block k.
ChunksHolding(seg, k) ==
    {j \in 1..Len(seg.chunks) :
        \E n \in 1..Len(seg.chunks[j].text) : seg.chunks[j].text[n] = k}

\* The header marker at block k has a chunk of its own, and the chunk after
\* it is a body chunk whose text starts with block k + 1.
HeaderThenBody(seg, k) ==
    \E j \in 1..(Len(seg.chunks) - 1) :
        /\ seg.chunks[j] = [type |-> "header", text |-> <<k>>]
        /\ seg.chunks[j + 1].type = "body"
        /\ seg.chunks[j + 1].text # <<>>
        /\ Head(seg.chunks[j + 1].text) = k + 1

\* Block k is emitted in exactly one chunk, a body chunk.
EmittedOnce(seg, k) ==
    /\ Cardinality(ChunksHolding(seg, k)) = 1
    /\ \A j \in ChunksHolding(seg, k) : seg.chunks[j].type = "body"

\* Block k stands ahead of the reference list and of the resource block.
InBodyPart(s, k) ==
    /\ \A m \in 1..k : s[m] # "R"
    /\ \A m \in 1..k : s[m] = "A" => \E n \in (k + 1)..Len(s) : s[n] = "A"

\* C18, as stated: every header marker that is immediately followed by a
\* paragraph of body text yields a header chunk and then a body chunk, and
\* every paragraph longer than MAX_CHUNK_CHARS is emitted as a chunk.
C18_HeaderAndLongParagraph ==
    segmented.done =>
       /\ \A k \in 1..(Len(segText) - 1) :
             (segText[k] \in {"H", "R"} /\ segText[k + 1] \in Paragraphs) =>
                HeaderThenBody(segmented, k)
       /\ \A k \in 1..Len(segText) :
             segText[k] = "P3" => EmittedOnce(segmented, k)

\* C18, amended: the same for the header markers and the paragraphs that
\* stand ahead of the reference list and of the resource block.
C18_InBodyPart ==
    segmented.done =>
       /\ \A k \in 1..(Len(segText) - 1) :
             (/\ segText[k] = "H" /\ segText[k + 1] \in Paragraphs
              /\ InBodyPart(segText, k + 1)) =>
                HeaderThenBody(segmented, k)
       /\ \A k \in 1..Len(segText) :
             (segText[k] = "P3" /\ InBodyPart(segText, k)) =>
                EmittedOnce(segmented, k)

\* A header marker followed by a paragraph longer than the cap and by one
\* more paragraph was segmented into three chunks.
C18_Witness ==
    /\ segmented.done
    /\ segText = <<"H", "P3", "P1">>
    /\ Len(segmented.chunks) = 3

\* Task new carries the history of old: translated text, user hint and
\* previous translation as they were, and the status as it was or as the
\* reset of an interrupted or failed task makes it.
CarriesHistory(old, new) ==
    /\ new.trans = old.trans
    /\ new.user_hint = old.user_hint
    /\ new.old_trans = old.old_trans
    /\ \/ new.status = old.status
       \/ old.status \in {"failed", "processing"} /\ new.status = "pending"

\* Every position of merged whose chunk of text c has its fingerprint in the
\* snapshot file holds a task with the history of a task of that fingerprint
\* and with the id and type of the fresh chunk.
MergedFrom(c, file, merged) ==
    \A p \in 1..Len(c) :
        HasCached(file, compute_hash(c[p])) =>
           /\ \E q \in PosWithHash(file.tasks, compute_hash(c[p])) :
                 CarriesHistory(file.tasks[q], merged[p])
           /\ merged[p].id = p - 1
           /\ merged[p].type = FreshTask(p, c[p]).type

\* C19: the merge at the start of a run and the merge of the extraction
\* step give every fresh chunk whose fingerprint is in the previous snapshot
\* a task with the old history, the fresh position as id and the fresh type.
C19_MergeKeepsHistoryFreshId ==
    [][/\ \A r \in Runs :
             RunMerge(r) => MergedFrom(content, cache, cur'[r])
       /\ \A c \in {content} :
             trigger_extract(c) => MergedFrom(c, cache, cache'.tasks)]_vars

\* C20: the task list made by the merge at the start of a run, and the
\* snapshot written by the merge of the extraction step, hold no task that
\* is processing or failed: such a status of the previous snapshot has
\* become pending.
C20_MergeResetsInterrupted ==
    [][/\ \A r \in Runs :
             RunMerge(r) =>
                WithStatus(cur'[r], "processing") \cup WithStatus(cur'[r], "failed") = {}
       /\ \A c \in {content} :
             trigger_extract(c) =>
                /\ cache'.state = "ok"
                /\ WithStatus(cache'.tasks, "processing")
                      \cup WithStatus(cache'.tasks, "failed") = {}]_vars

\* C21: the task list made by the merge at the start of a run has one task
\* per fresh chunk, in the order of the fresh chunks: the task at position p
\* has the id of that position and the text of that chunk; and a chunk whose
\* fingerprint is not in the previous snapshot is a pending task with empty
\* translated text, user hint and previous translation.
C21_MergedListFollowsFreshChunks ==
    [][\A r \in Runs :
          RunMerge(r) =>
             /\ Len(cur'[r]) = Len(content)
             /\ \A p \in 1..Len(content) :
                   /\ cur'[r][p].id = p - 1
                   /\ cur'[r][p].src = content[p]
                   /\ ~HasCached(cache, compute_hash(content[p])) =>
                         /\ cur'[r][p].status = "pending"
                         /\ cur'[r][p].trans = 0
                         /\ cur'[r][p].user_hint = 0
                         /\ cur'[r][p].old_trans = 0]_vars

\* The snapshot file is missing or cannot be loaded as this run needs it:
\* json.load raises, or a task record has no chunk_hash.
NoPriorHistory(file) ==
    \/ file.state # "ok"
    \/ \E q \in 1..Len(file.tasks) : file.tasks[q].chunk_hash = NoHash

\* C22: when the previous snapshot is missing or cannot be loaded, the
\* merge at the start of a run adopts nothing from it: every task of the
\* merged list is the fresh task of its chunk, pending with empty translated
\* text, user hint and previous translation.
C22_UnloadableSnapshotIsNoHistory ==
    [][\A r \in Runs :
          (RunMerge(r) /\ NoPriorHistory(cache)) =>
             /\ Len(cur'[r]) = Len(content)
             /\ \A p \in 1..Len(content) :
                   /\ cur'[r][p].status = "pending"
                   /\ cur'[r][p].trans = 0
                   /\ cur'[r][p].user_hint = 0
                   /\ cur'[r][p].old_trans = 0]_vars

\* The request in flight is a correction / a first pass for task t.
AsCorrection(c) ==
    c = [model |-> "MODEL_STRONG", prompt |-> "SYSTEM_PROMPT_CORRECTION"]
AsFirstPass(c, t) == c = [model |-> "MODEL_NORMAL", prompt |-> t.type]

\* C23, as stated: the task a run starts is executed as a correction when
\* its user hint and its previous translation are both non-empty, and
\* otherwise as a first pass with the prompt of its type.
C23_CorrectionIffBothNonEmpty ==
    [][\A r \in Runs :
          LoopStart(r) =>
             LET t == cur[r][i[r]]
             IN IF t.user_hint # 0 /\ t.old_trans # 0
                THEN AsCorrection(call'[r])
                ELSE AsFirstPass(call'[r], t)]_vars

\* C23, amended: the same with "non-empty" read after whitespace is
\* stripped: a hint or previous translation of whitespace only counts as
\* empty.
C23_CorrectionIffBothVisible ==
    [][\A r \in Runs :
          LoopStart(r) =>
             LET t == cur[r][i[r]]
             IN IF t.user_hint \notin {0, BlankHint} /\ t.old_trans \notin {0, BlankHint}
                THEN AsCorrection(call'[r])
                ELSE AsFirstPass(call'[r], t)]_vars

\* A run has a correction in flight, for a task that carries a visible hint
\* and a visible previous translation.
C23_Witness ==
    \E r \in Runs :
        /\ pc[r] = "call"
        /\ AsCorrection(call[r])
        /\ cur[r][i[r]].user_hint = 1
        /\ cur[r][i[r]].old_trans = 1

\* Block k belongs to the body stream: it stands ahead of the reference
\* list and of the resource block, and after the metadata markers the
\* stream starts with.
InBodyStream(s, k) ==
    InBodyPart(s, k) /\ \E n \in 1..k : s[n] # "M"

\* The blocks of the body segment of block m that are text: the blocks
\* between the header markers around m, resource markers left out.
SameSegment(s, m, k) ==
    \A n \in (Min({m, k}))..(Max({m, k})) : s[n] # "H"

TextAround(s, m) ==
    {k \in 1..Len(s) : s[k] # "I" /\ InBodyStream(s, k) /\ SameSegment(s, m, k)}

\* The ids a resource marker at block m may be recorded under.  In a
\* segment with text: the id of the chunk that holds the text before the
\* marker or of the chunk that holds the text after it.  In a segment of
\* markers only: the id of the next chunk of the body stream, if there is
\* one.
OwnersOf(s, seg, m) ==
    LET around == TextAround(s, m)
        before == {k \in around : k < m}
        after == {k \in around : k > m}
        later == {j \in 1..Len(seg.chunks) :
                     /\ seg.chunks[j].type \in {"header", "body"}
                     /\ \A n \in 1..Len(seg.chunks[j].text) :
                           seg.chunks[j].text[n] > m}
    IN IF around # {}
       THEN {j - 1 : j \in (IF before = {} THEN {} ELSE ChunksHolding(seg, Max(before)))
                            \cup (IF after = {} THEN {} ELSE ChunksHolding(seg, Min(after)))}
       ELSE IF later = {} THEN {} ELSE {Min(later) - 1}

RecordedUnder(seg, m) == {pr[1] : pr \in {q \in seg.layout : q[2] = m}}

\* C24: every resource marker of the body stream that has a chunk to belong
\* to is recorded in the association map under the id of such a chunk and
\* under no other id: the chunk that contains it or, for a marker in text
\* with no visible content, the next chunk emitted after it.
C24_MarkerRecordedWithItsChunk ==
    segmented.done =>
       \A m \in 1..Len(segText) :
          (/\ segText[m] = "I"
           /\ InBodyStream(segText, m)
           /\ OwnersOf(segText, segmented, m) # {}) =>
             /\ RecordedUnder(segmented, m) # {}
             /\ RecordedUnder(segmented, m) \subseteq OwnersOf(segText, segmented, m)

\* C25: a resource marker of a body segment made of markers only is in the
\* association map that comes with the task list, under the id of a task of
\* that list; and every key of the map is the id of a task of the list.
C25_MarkerOnlySegmentIsKept ==
    segmented.done =>
       /\ \A m \in 1..Len(segText) :
             (/\ segText[m] = "I"
              /\ InBodyStream(segText, m)
              /\ TextAround(segText, m) = {}) =>
                \E id \in RecordedUnder(segmented, m) :
                    id \in 0..(Len(segmented.chunks) - 1)
       /\ \A pr \in segmented.layout : pr[1] \in 0..(Len(segmented.chunks) - 1)

\* C26: every piece split_long_buffer_safely returns for a text and a cap
\* max_len is at most max_len characters long.
C26_PiecesWithinCap ==
    splitOut.done =>
       \A n \in 1..Len(splitOut.pieces) :
          PieceLen(splitOut.pieces[n]) <= splitIn.max_len

\* C27: a correction submitted for a task that already awaits a correction
\* (an earlier submission, no run executed it yet) leaves old_trans the
\* translation the provider produced last, never the empty value, so the
\* next run executes the task as a correction.
C27_RepeatedCorrectionKeepsOldTrans ==
    [][\A k \in 0..(Len(content) - 1), h \in Hints :
          update_feedback(k, h) =>
             \A q \in FeedbackTarget(cache.tasks, k) :
                 (AwaitsCorrection(cache.tasks[q]) /\ cache.tasks[q].trans = 0) =>
                    /\ cache'.tasks[q].old_trans = cache.tasks[q].old_trans
                    /\ is_correction_mode(cache'.tasks[q])]_vars

\* C28: a correction accepted for task id k is acted on by the next run:
\* after the run's merge the task at position k is pending, the state in
\* which the loop calls the provider for it, and carries the hint; also when
\* another chunk of the document has the same text.
C28_NextRunActsOnCorrection ==
    [][\A r \in Runs :
          (RunMerge(r) /\ cache.state = "ok" /\ SourcesOf(cache.tasks) = content) =>
             \A q \in Positions(cache.tasks) :
                 (AwaitsCorrection(cache.tasks[q]) /\ cache.tasks[q].id = q - 1) =>
                    /\ cur'[r][q].status = "pending"
                    /\ cur'[r][q].user_hint = cache.tasks[q].user_hint]_vars

\* C29: in every snapshot the engine writes, a task of status success has
\* a non-empty translated text, whatever the provider returned (whitespace
\* only and an empty code fence included).
C29_SuccessHasTranslation ==
    [][\A r \in Runs :
          (RunStep(r) /\ cache' # cache) =>
             \A p \in Positions(cache'.tasks) :
                 cache'.tasks[p].status = "success" => cache'.tasks[p].trans # 0]_vars

\* C30: a correction saved in the snapshot while a run of the document is
\* in progress is not lost when that run ends: the snapshot the run leaves
\* shows the task with the hint, pending or translated again as a
\* correction.
C30_CorrectionSurvivesRun ==
    [][\A r \in Runs :
          (RunFinal(r) /\ cache.state = "ok") =>
             \A q \in Positions(cache.tasks) :
                 AwaitsCorrection(cache.tasks[q]) =>
                    /\ q \in Positions(cache'.tasks)
                    /\ cache'.tasks[q].user_hint = cache.tasks[q].user_hint
                    /\ \/ cache'.tasks[q].status = "pending"
                       \/ /\ cache'.tasks[q].status = "success"
                          /\ cache'.tasks[q].old_trans # 0]_vars

====
